---- MODULE Spec2Model ----
(***************************************************************************)
(* Media-download orchestrator of the two chat bots of CPVideos:           *)
(*   - the polling bot  (src/bot.go):            variant = "poll"          *)
(*   - the webhook bot  (src/unnamed/part_002):  variant = "hook"          *)
(* One behaviour follows one bot; Init chooses which.                      *)
(*                                                                         *)
(* Time is counted in minutes (now) plus a second-of-the-minute counter    *)
(* (sec) that only matters for the Unix timestamps put into file names.    *)
(* The external tool yt-dlp is a black box: while a job's subprocess runs  *)
(* it may write files under the job's output template, and it exits with   *)
(* status zero or non-zero.  A written file's modification time is the     *)
(* time of the write.                                                      *)
(***************************************************************************)
EXTENDS Integers, Sequences, FiniteSets, TLC

(* ------------------------------ bounds -------------------------------- *)
MaxTime == 40        \* minutes of wall-clock time explored
MaxSec == 1          \* seconds distinguished inside one clock step
MaxSpawns == 2       \* download subprocesses started in one behaviour
MaxJobs == 2         \* download goroutines alive at once (webhook bot)
MaxWrites == 1       \* files one subprocess writes
MaxUpdates == 3      \* inbound updates (messages, callbacks) handled
MaxUpdatesJanitor == 2   \* the same, in behaviours where the clock runs
MaxLines == 3        \* output lines one download subprocess prints
MaxEdits == 2        \* progress edits after which the ticker is no longer followed
MaxFormats == 9      \* descriptors in one probed format list
MaxMixed == 3        \* leading descriptors of a list whose codecs vary freely
MaxProbeSecs == 16   \* seconds of one metadata probe's run explored
MaxSweepFiles == 2   \* files in the workspace while a sweep is followed file by file
MaxConns == 3        \* WebSocket connections accepted by the chat server
MaxUsers == 2        \* user ids that hold a valid token

(* ------------------------- program constants -------------------------- *)
MaxFileSizeBotAPI == 50 * 1024 * 1024
CleanerIntervalPoll == 5
RetentionPoll == 60
CleanerIntervalHook == 10
RetentionHook == 30
TickStep == CleanerIntervalPoll

Chats == {1, 2}
Links == {"https://example.com/v1", "https://example.com/v2"}
Texts == Links \cup {"hola"}
Sizes == {MaxFileSizeBotAPI, MaxFileSizeBotAPI + 1}

VARIABLES
  variant,      \* which bot this behaviour follows
  userStates,   \* the session store: a set of [chat, st] entries
  files,        \* the download workspace: a set of file records
  jobs,         \* slot -> the download handler running there, or NoJob
  spawns,       \* number of download subprocesses started so far
  budget,       \* number of inbound updates still to be handled
  now, sec,     \* the clock: minutes, and seconds within the step
  nextSweep,    \* when the janitor's ticker fires next
  alive,        \* FALSE once the process died of an unrecovered panic
  ev,           \* what the last handler step did (observation only)
  lastActivityAt,   \* chat -> time of the chat's last inbound update (observation only)
  \* the progress monitor of one download of the webhook bot
  stdout,       \* the subprocess's output pipe: the lines not yet read
  proc,         \* the subprocess: "idle", "running", "exited"
  waiter,       \* performDownload around cmd.Wait(): "idle", "wait", "signal", "returned"
  mon,          \* monitorProgress: "idle", "select", "scan", "returned", "panicked"
  lastLine,     \* monitorProgress's variable lastLine
  tick,         \* TRUE while ticker.C holds a tick
  edits,        \* the percentages of the progress edits sent, in order
  written,      \* number of lines the subprocess has written
  observed,     \* TRUE when a percentage was scanned since the last tick was handled
                \* (observation only)
  \* the option lists built from one probe result
  probeResult,  \* the format list the probe reported
  presented,    \* the option list presented for it
  probing,      \* the metadata probe a handler waits for, or NoProbe
  sweeping,     \* the janitor's sweep, followed file by file, or NoSweep
  shutdown,     \* SIGINT/SIGTERM: "none", "pending" in sigChan, "done" once handled
  \* the chat WebSocket server (server.js)
  sockets,            \* connection -> its readyState, the userId of its closure and the
                      \* user ids it has authenticated as (observation only)
  activeConnections,  \* Map userId -> connection, 0 for no entry
  onlineUsers,        \* Set of userIds
  lastFrame           \* what the last frame handled did (observation only)

botVars == <<variant, userStates, files, jobs, spawns, budget, now, sec, nextSweep, alive, ev,
             lastActivityAt>>
monitorVars == <<stdout, proc, waiter, mon, lastLine, tick, edits, written, observed>>
formatVars == <<probeResult, presented>>
chatVars == <<sockets, activeConnections, onlineUsers, lastFrame>>
vars == <<botVars, monitorVars, formatVars, probing, sweeping, shutdown, chatVars>>

Slots == 1..MaxJobs
NoJob == [pc |-> "none"]
NoSession == [LastURL |-> ""]
NoFile == [ext |-> ""]
NoEvent == [kind |-> "none", chat |-> 0, data |-> <<>>, res |-> "", was |-> "", job |-> NoJob]

(* --------------------------- session store ---------------------------- *)
\* m[k] = v of a Go map, sync.Map.Store: the entry for k is overwritten.
MapStoreAppend(m, k, v) == m \cup {[chat |-> k, st |-> v]}
MapStoreIfAbsent(m, k, v) ==
  IF \E e \in m : e.chat = k THEN m ELSE m \cup {[chat |-> k, st |-> v]}
MapStore(m, k, v) == {e \in m : e.chat # k} \cup {[chat |-> k, st |-> v]}

\* delete(m, k), sync.Map.Delete
MapDelete(m, k) == {e \in m : e.chat # k}

\* v, ok := m[k], sync.Map.Load
MapHas(m, k) == \E e \in m : e.chat = k
MapLoad(m, k) == IF MapHas(m, k) THEN (CHOOSE e \in m : e.chat = k).st ELSE NoSession

(* ------------------------------ the probe ----------------------------- *)
Fmt(id, ext, h, v, a) ==
  [FormatID |-> id, Ext |-> ext, Height |-> h, VideoCodec |-> v, AudioCodec |-> a]

\* What `yt-dlp -j` reports for each link when it succeeds.
ProbeFormats(url) ==
  IF url = "https://example.com/v1"
  THEN << Fmt("22", "mp4", 720, "avc1", "mp4a"),
          Fmt("18", "mp4", 480, "avc1", "mp4a"),
          Fmt("140", "m4a", 0, "none", "mp4a") >>
  ELSE << Fmt("18", "mp4", 480, "avc1", "mp4a") >>
ProbeThumbnail(url) == IF url = "https://example.com/v1" THEN "thumb" ELSE ""

HasPrefixHttp(text) == text \in Links

filterVideoFormats(formats) ==
  LET keep(f) == /\ f.VideoCodec # "none" /\ f.AudioCodec # "none"
                 /\ (f.Ext = "mp4" \/ f.Ext = "webm")
  IN SelectSeq(formats, keep)

filterAudioFormats(formats) ==
  LET keep(f) == f.VideoCodec = "none" /\ f.AudioCodec # "none"
  IN SelectSeq(formats, keep)

(* ---------------------------- callback data --------------------------- *)
\* Callback data is a string; it is modelled as the sequence of its pieces
\* with ":" standing for the separator character.
RECURSIVE SplitFrom(_, _, _)
SplitFrom(data, i, cur) ==
  IF i > Len(data) THEN <<cur>>
  ELSE IF data[i] = ":" THEN <<cur>> \o SplitFrom(data, i + 1, "")
  ELSE SplitFrom(data, i + 1, data[i])
\* strings.Split(data, ":")
Split(data) == SplitFrom(data, 1, "")

PollCallbacks ==
  { <<"cancel">>,
    <<"type", ":", "video">>, <<"type", ":", "audio">>,
    <<"format", ":", "video", ":", "22">>,
    <<"format", ":", "video", ":", "18">>,
    <<"format", ":", "audio", ":", "140">> }

HookCallbacks ==
  { <<"cancel">>,
    <<"dl", ":", "audio", ":", "best">>,
    <<"dl", ":", "video", ":", "720">>,
    <<"dl", ":", "video", ":", "480">> }

(* ------------------------------ workspace ----------------------------- *)
Interval == IF variant = "poll" THEN CleanerIntervalPoll ELSE CleanerIntervalHook
Retention == IF variant = "poll" THEN RetentionPoll ELSE RetentionHook

\* time.Now().Unix()
UnixNow == now * 60 + sec

FileOf(prefix, ext, size, mtime) ==
  [chat |-> prefix.chat, fmt |-> prefix.fmt, ts |-> prefix.ts, ext |-> ext,
   size |-> size, mtime |-> mtime]
NameOf(f) == [chat |-> f.chat, fmt |-> f.fmt, ts |-> f.ts, ext |-> f.ext]
PathOf(prefix, ext) == [chat |-> prefix.chat, fmt |-> prefix.fmt, ts |-> prefix.ts, ext |-> ext]
HasPrefix(f, prefix) == f.chat = prefix.chat /\ f.fmt = prefix.fmt /\ f.ts = prefix.ts

Exists(fs, name) == \E f \in fs : NameOf(f) = name
Stat(fs, name) == CHOOSE f \in fs : NameOf(f) = name
\* os.Remove(path): removing a missing file is an error the callers ignore
Remove(fs, name) == {f \in fs : NameOf(f) # name}
\* creating or rewriting the file at a path
WriteFile(fs, f) == {g \in fs : NameOf(g) # NameOf(f)} \cup {f}

\* Files a previous run of the process may have left in ./temp_downloads
\* (os.MkdirAll keeps an existing directory).
Leftovers ==
  { FileOf([chat |-> 1, fmt |-> (IF variant = "poll" THEN "18" ELSE "vid"), ts |-> m * 60],
           ".mp4", MaxFileSizeBotAPI, m)
      : m \in {0 - Retention, Interval - Retention} }

ActiveSlots == {s \in Slots : jobs[s].pc # "none"}
FreeSlots == Slots \ ActiveSlots
JobsOf(c) == {s \in ActiveSlots : jobs[s].chat = c}

\* The stage of conversation c, read off the program's state.
Stage(c) ==
  IF \E s \in JobsOf(c) : jobs[s].pc \in {"thumb", "send"} THEN "Delivering"
  ELSE IF JobsOf(c) # {} THEN "Downloading"
  ELSE IF ~MapHas(userStates, c) THEN "AwaitingLink"
  ELSE IF variant = "poll" /\ Len(MapLoad(userStates, c).Formats) = 0 THEN "AwaitingMediaKind"
  ELSE "AwaitingFormat"

Rank(stage) ==
  CASE stage = "AwaitingLink" -> 0
    [] stage = "AwaitingMediaKind" -> 1
    [] stage = "AwaitingFormat" -> 2
    [] stage = "Downloading" -> 3
    [] stage = "Delivering" -> 4
    [] OTHER -> 5

Event(kind, c, data, res, was, job) ==
  [kind |-> kind, chat |-> c, data |-> data, res |-> res, was |-> was, job |-> job]

\* The empty string, as the value of lastLine
EmptyLine == [pre |-> "", num |-> <<>>]
NoShown == [bot |-> "", kind |-> "", rows |-> <<>>]
NoSweep == [pc |-> "idle", list |-> {}, victim |-> NoFile, skipped |-> FALSE]
NoProbe == [fn |-> "", chat |-> 0, arg |-> "", kind |-> "", pc |-> "idle", secs |-> 0]

\* No progress monitor is followed.
MonitorIdle ==
  /\ stdout = <<>> /\ proc = "idle" /\ waiter = "idle" /\ mon = "idle"
  /\ lastLine = EmptyLine /\ tick = FALSE /\ edits = <<>> /\ written = 0
  /\ observed = FALSE

\* No option list is followed.
NoFrame == [conn |-> 0, type |-> "", authed |-> FALSE, broadcast |-> FALSE, saved |-> FALSE]
\* The chat server right after `new WebSocket.Server`: no connection yet.
ChatIdle ==
  /\ sockets = [k \in 1..MaxConns |-> [readyState |-> "none", userId |-> 0, authedAs |-> {}]]
  /\ activeConnections = [u \in 1..MaxUsers |-> 0]
  /\ onlineUsers = {}
  /\ lastFrame = NoFrame

FormatsIdle == probeResult = <<>> /\ presented = NoShown /\ probing = NoProbe /\ sweeping = NoSweep
  /\ shutdown = "none"

InitCommon ==
  /\ MonitorIdle
  /\ FormatsIdle
  /\ ChatIdle
  /\ lastActivityAt = [c \in Chats |-> 0]
  /\ variant \in {"poll", "hook"}
  /\ userStates = {}
  /\ files \in {{}} \cup {{f} : f \in Leftovers}
  /\ jobs = [s \in Slots |-> NoJob]
  /\ spawns = 0
  /\ now = 0
  /\ sec = 0
  /\ nextSweep = Interval
  /\ alive = TRUE
  /\ ev = NoEvent

\* Behaviours in which less than one clock step passes: no sweep is due.
Init == InitCommon /\ budget = MaxUpdates

\* Behaviours in which the clock runs up to MaxTime.
InitJanitor == InitCommon /\ budget = MaxUpdatesJanitor

(* -------------------------------- time -------------------------------- *)
\* The ticker of autoCleaner fires every Interval; the sweep runs when it
\* fires, so the clock does not pass a due sweep.
Tick ==
  /\ alive
  /\ now + TickStep <= MaxTime
  /\ now < nextSweep
  /\ now' = now + TickStep
  /\ sec' = 0
  /\ ev' = NoEvent
  /\ UNCHANGED <<monitorVars, formatVars, chatVars, probing, sweeping, shutdown, lastActivityAt, variant, userStates, files, jobs, spawns, budget, nextSweep, alive>>

SecondPasses ==
  /\ alive
  /\ sec < MaxSec
  /\ sec' = sec + 1
  /\ ev' = NoEvent
  /\ UNCHANGED <<monitorVars, formatVars, chatVars, probing, sweeping, shutdown, lastActivityAt, variant, userStates, files, jobs, spawns, budget, now, nextSweep, alive>>

(* ------------------------------- janitor ------------------------------ *)
\* time.Since(info.ModTime()) > retention
TooOldSlack(f) == now - f.mtime > Retention + Interval
TooOld(f) == now - f.mtime > Retention

autoCleaner ==
  /\ alive
  /\ now = nextSweep
  /\ files' = {f \in files : ~TooOld(f)}
  /\ nextSweep' = nextSweep + Interval
  /\ ev' = Event("sweep", 0, <<>>, "", "", NoJob)
  /\ UNCHANGED <<monitorVars, formatVars, chatVars, probing, sweeping, shutdown, lastActivityAt, variant, userStates, jobs, spawns, budget, now, sec, alive>>

(* ------------------------ the download subprocess --------------------- *)
FinalExt(mode) == IF mode = "audio" THEN ".mp3" ELSE ".mp4"

\* yt-dlp writes under the output template <prefix>.%(ext)s: the final file
\* or an intermediate one.
SubprocessWrite(s) ==
  /\ alive
  /\ jobs[s].pc = "running"
  /\ jobs[s].writes < MaxWrites
  /\ \E ext \in {FinalExt(jobs[s].mode), ".part"}, size \in Sizes :
       files' = WriteFile(files, FileOf(jobs[s].prefix, ext, size, now))
  /\ jobs' = [jobs EXCEPT ![s].writes = @ + 1]
  /\ ev' = NoEvent
  /\ UNCHANGED <<monitorVars, formatVars, chatVars, probing, sweeping, shutdown, lastActivityAt, variant, userStates, spawns, budget, now, sec, nextSweep, alive>>

NewJob(c, url, mode, fmt, prefix, thumb) ==
  [pc |-> "running", chat |-> c, url |-> url, mode |-> mode, fmt |-> fmt,
   prefix |-> prefix, file |-> NoFile, size |-> 0, sent |-> "no",
   thumb |-> thumb, thumbPath |-> "", writes |-> 0]

EndJob(s, res) ==
  /\ jobs' = [jobs EXCEPT ![s] = NoJob]
  /\ ev' = Event("job", jobs[s].chat, <<>>, res, Stage(jobs[s].chat), jobs[s])

(* ------------------------------ keyboards ----------------------------- *)
MaxButtons == 8
MaxHeights == 4

SubSeqTo(seq, n) == IF Len(seq) > n THEN SubSeq(seq, 1, n) ELSE seq

\* Callback data of the buttons sendFormatButtons puts under the format list
sendFormatButtons(formats, formatType) ==
  LET shown == SubSeqTo(formats, MaxButtons)
  IN {<<"format", ":", formatType, ":", shown[i].FormatID>> : i \in 1..Len(shown)}
       \cup {<<"cancel">>}

\* if len(formats) > 8 { formats = formats[:8] }: the formats that get a button
formatRows(formats) == SubSeqTo(formats, MaxButtons)

\* The heights of the formats that have a video stream and a known height
resolutions(meta) ==
  {meta.Formats[k].Height : k \in
     {i \in 1..Len(meta.Formats) :
        meta.Formats[i].VideoCodec # "none" /\ meta.Formats[i].Height > 0}}

\* sort.Sort(sort.Reverse(sort.IntSlice(heights)))
RECURSIVE SortReverse(_)
SortReverse(heights) ==
  IF heights = {} THEN <<>>
  ELSE LET top == CHOOSE h \in heights : \A g \in heights : g <= h
       IN <<top>> \o SortReverse(heights \ {top})

\* The heights that get a button, in the order of the buttons
qualityHeights(meta) == SubSeqTo(SortReverse(resolutions(meta)), MaxHeights)

\* Callback data of the buttons createQualityKeyboard builds from the metadata
createQualityKeyboard(meta) ==
  LET heights == qualityHeights(meta)
  IN {<<"dl", ":", "audio", ":", "best">>}
       \cup {<<"dl", ":", "video", ":", ToString(heights[i])>> : i \in 1..Len(heights)}
       \cup {<<"cancel">>}

(* ======================= polling bot: src/bot.go ====================== *)
\* The main loop handles one update at a time: while a handler runs (a
\* download included) no other update is taken from the channel.
PollReady == variant = "poll" /\ alive /\ ActiveSlots = {} /\ budget > 0

\* exec yt-dlp --dump-json succeeded: `ran` is the subprocess's verdict
isValidURL(url, ran) == HasPrefixHttp(url) /\ ran

NewUserState(url) == [LastURL |-> url, LastFormat |-> "", Formats |-> <<>>]

processLinkForgetting(c, url, ran) ==
  IF ~isValidURL(url, ran)
  THEN /\ ev' = Event("link", c, <<url>>, "InvalidLink", Stage(c), NoJob)
       /\ userStates' = MapDelete(userStates, c)
  ELSE /\ userStates' = MapStore(userStates, c, NewUserState(url))
       /\ ev' = Event("link", c, <<url>>, "Accepted", Stage(c), NoJob)
processLink(c, url, ran) ==
  IF ~isValidURL(url, ran)
  THEN /\ ev' = Event("link", c, <<url>>, "InvalidLink", Stage(c), NoJob)
       /\ UNCHANGED userStates
  ELSE /\ userStates' = MapStore(userStates, c, NewUserState(url))
       /\ ev' = Event("link", c, <<url>>, "Accepted", Stage(c), NoJob)

handleMessage(c, text, ran) ==
  /\ PollReady
  /\ IF HasPrefixHttp(text)
     THEN processLink(c, text, ran)
     ELSE /\ ev' = Event("text", c, <<text>>, "Hint", Stage(c), NoJob)
          /\ UNCHANGED userStates
  /\ budget' = budget - 1
  /\ lastActivityAt' = [lastActivityAt EXCEPT ![c] = now]
  /\ UNCHANGED <<monitorVars, formatVars, chatVars, probing, sweeping, shutdown, variant, files, jobs, spawns, now, sec, nextSweep, alive>>

\* Result of showAvailableFormats: the reply sent and the session afterwards.
showAvailableFormats(state, formatType, probed) ==
  LET availableFormats == IF formatType = "video"
                          THEN filterVideoFormats(ProbeFormats(state.LastURL))
                          ELSE filterAudioFormats(ProbeFormats(state.LastURL))
  IN IF ~probed THEN [res |-> "ProbeError", st |-> state]
     ELSE IF Len(availableFormats) = 0 THEN [res |-> "NoFormats", st |-> state]
     ELSE [res |-> "FormatsShown", st |-> [state EXCEPT !.Formats = availableFormats]]

\* downloadAndSend up to the start of the subprocess
downloadAndSend(c, url, formatID, formatType) ==
  NewJob(c, url, formatType, formatID,
         [chat |-> c, fmt |-> formatID, ts |-> UnixNow], "")

handleCallback(c, data, probed) ==
  LET parts == Split(data)
      prev == MapLoad(userStates, c)
  IN
  /\ PollReady
  /\ IF Len(parts) < 2
     THEN /\ ev' = Event("callback", c, data, "Ignored", Stage(c), NoJob)
          /\ UNCHANGED <<userStates, jobs, spawns>>
     ELSE IF ~MapHas(userStates, c) \/ prev.LastURL = ""
     THEN /\ ev' = Event("callback", c, data, "SessionExpired", Stage(c), NoJob)
          /\ UNCHANGED <<userStates, jobs, spawns>>
     ELSE IF parts[1] = "type"
     THEN LET shown == showAvailableFormats([prev EXCEPT !.LastFormat = parts[2]],
                                            parts[2], probed)
          IN /\ userStates' = MapStore(userStates, c, shown.st)
             /\ ev' = Event("callback", c, data, shown.res, Stage(c), NoJob)
             /\ UNCHANGED <<jobs, spawns>>
     ELSE IF parts[1] = "format"
     THEN IF Len(parts) = 3
          THEN /\ spawns < MaxSpawns
               /\ jobs' = [jobs EXCEPT ![1] = downloadAndSend(c, prev.LastURL, parts[3], parts[2])]
               /\ spawns' = spawns + 1
               /\ ev' = Event("callback", c, data, "DownloadStarted", Stage(c), jobs'[1])
               /\ UNCHANGED userStates
          ELSE /\ ev' = Event("callback", c, data, "Ignored", Stage(c), NoJob)
               /\ UNCHANGED <<userStates, jobs, spawns>>
     ELSE IF parts[1] = "cancel"
     THEN /\ userStates' = MapDelete(userStates, c)
          /\ ev' = Event("callback", c, data, "Cancelled", Stage(c), NoJob)
          /\ UNCHANGED <<jobs, spawns>>
     ELSE /\ ev' = Event("callback", c, data, "Ignored", Stage(c), NoJob)
          /\ UNCHANGED <<userStates, jobs, spawns>>
  /\ budget' = budget - 1
  /\ lastActivityAt' = [lastActivityAt EXCEPT ![c] = now]
  /\ UNCHANGED <<monitorVars, formatVars, chatVars, probing, sweeping, shutdown, variant, files, now, sec, nextSweep, alive>>

\* Order of filepath.Glob's result among names that differ in extension only
ExtRank(ext) == IF ext = ".mp3" THEN 1 ELSE IF ext = ".mp4" THEN 2 ELSE 3
GlobBefore(f, g) == f.ts < g.ts \/ (f.ts = g.ts /\ ExtRank(f.ext) < ExtRank(g.ext))

\* The files matching <chatID>_<formatID>_*
Glob(fs, c, formatID) == {f \in fs : f.chat = c /\ f.fmt = formatID}

\* The most recently modified match; the first in glob order among equals.
findDownloadedFile(fs, c, formatID) ==
  LET matches == Glob(fs, c, formatID)
      latest == {f \in matches : \A g \in matches : g.mtime <= f.mtime}
  IN IF matches = {} THEN NoFile
     ELSE NameOf(CHOOSE f \in latest : \A g \in latest : g = f \/ GlobBefore(f, g))

TooLargeOffByOne(size) == size > MaxFileSizeBotAPI + 1
TooLarge(size) == size > MaxFileSizeBotAPI

\* cmd.Run() returns; on success the downloaded file is looked up
PollExit(err) ==
  LET j == jobs[1]
      found == findDownloadedFile(files, j.chat, j.fmt)
  IN
  /\ variant = "poll" /\ alive
  /\ j.pc = "running"
  /\ IF err
     THEN EndJob(1, "DownloadFailed")
     ELSE IF found = NoFile
     THEN EndJob(1, "ArtifactMissing")
     ELSE /\ jobs' = [jobs EXCEPT ![1].pc = "stat", ![1].file = found]
          /\ ev' = NoEvent
  /\ UNCHANGED <<monitorVars, formatVars, chatVars, probing, sweeping, shutdown, lastActivityAt, variant, userStates, files, spawns, budget, now, sec, nextSweep, alive>>

\* os.Stat, whose error is dropped, and the 50 MB check
PollSizeCheck ==
  LET j == jobs[1] IN
  /\ variant = "poll" /\ alive
  /\ j.pc = "stat"
  /\ IF ~Exists(files, j.file)
     THEN \* fileInfo is nil: fileInfo.Size() panics and nothing recovers
          /\ alive' = FALSE
          /\ EndJob(1, "Panic")
          /\ UNCHANGED files
     ELSE IF TooLarge(Stat(files, j.file).size)
     THEN /\ files' = Remove(files, j.file)
          /\ jobs' = [jobs EXCEPT ![1] = NoJob]
          /\ ev' = Event("job", j.chat, <<>>, "ArtifactTooLarge", Stage(j.chat),
                         [j EXCEPT !.size = Stat(files, j.file).size])
          /\ UNCHANGED alive
     ELSE /\ jobs' = [jobs EXCEPT ![1].pc = "send", ![1].size = Stat(files, j.file).size]
          /\ ev' = NoEvent
          /\ UNCHANGED <<files, alive>>
  /\ UNCHANGED <<monitorVars, formatVars, chatVars, probing, sweeping, shutdown, lastActivityAt, variant, userStates, spawns, budget, now, sec, nextSweep>>

\* Outcome of sendFileToUser: os.Open fails on a missing file, else bot.Send
sendFileToUser(fs, path, sendOk) ==
  IF ~Exists(fs, path) THEN "open_failed" ELSE IF sendOk THEN "ok" ELSE "failed"

\* sendFileToUser returns, then the cleanup at the end of downloadAndSend
PollDeliver(sendOk) ==
  LET j == jobs[1] IN
  /\ variant = "poll" /\ alive
  /\ j.pc = "send"
  /\ files' = Remove(files, j.file)
  /\ userStates' = MapDelete(userStates, j.chat)
  /\ jobs' = [jobs EXCEPT ![1] = NoJob]
  /\ ev' = Event("job", j.chat, <<>>, "Done", Stage(j.chat),
                 [j EXCEPT !.sent = sendFileToUser(files, j.file, sendOk)])
  /\ UNCHANGED <<monitorVars, formatVars, chatVars, probing, sweeping, shutdown, lastActivityAt, variant, spawns, budget, now, sec, nextSweep, alive>>

(* ================ webhook bot: src/unnamed/part_002 =================== *)
\* Every update is handled in a goroutine of its own, and every download in
\* another one: handlers of the webhook bot interleave freely.  A handler's
\* effect on the shared state happens at its sync.Map operation.
HookReady == variant = "hook" /\ alive /\ budget > 0

\* The VideoMetaData decoded from the probe's output
NewMeta(url) ==
  [WebpageURL |-> url, Thumbnail |-> ProbeThumbnail(url), Formats |-> ProbeFormats(url)]

processLinkHook(c, url, ran) ==
  IF ~ran
  THEN /\ ev' = Event("link", c, <<url>>, "InvalidLink", Stage(c), NoJob)
       /\ UNCHANGED userStates
  ELSE /\ userStates' = MapStore(userStates, c, NewMeta(url))
       /\ ev' = Event("link", c, <<url>>, "Accepted", Stage(c), NoJob)

handleMessageHook(c, text, ran) ==
  /\ HookReady
  /\ IF HasPrefixHttp(text)
     THEN processLinkHook(c, text, ran)
     ELSE /\ ev' = Event("text", c, <<text>>, "Hint", Stage(c), NoJob)
          /\ UNCHANGED userStates
  /\ budget' = budget - 1
  /\ lastActivityAt' = [lastActivityAt EXCEPT ![c] = now]
  /\ UNCHANGED <<monitorVars, formatVars, chatVars, probing, sweeping, shutdown, variant, files, jobs, spawns, now, sec, nextSweep, alive>>

\* performDownload up to cmd.Start()
performDownload(c, meta, mode, quality) ==
  LET prefix == [chat |-> c, fmt |-> "vid", ts |-> UnixNow]
  IN [NewJob(c, meta.WebpageURL, mode, quality, prefix, meta.Thumbnail)
        EXCEPT !.file = PathOf(prefix, FinalExt(mode))]

handleCallbackHookRestoring(c, data, started) ==
  LET parts == Split(data) IN
  /\ HookReady
  /\ IF data = <<"cancel">>
     THEN /\ userStates' = MapDelete(userStates, c)
          /\ ev' = Event("callback", c, data, "Cancelled", Stage(c), NoJob)
          /\ UNCHANGED <<jobs, spawns>>
     ELSE IF Len(parts) < 3 \/ parts[1] # "dl"
     THEN /\ ev' = Event("callback", c, data, "Ignored", Stage(c), NoJob)
          /\ UNCHANGED <<userStates, jobs, spawns>>
     ELSE IF ~MapHas(userStates, c)
     THEN /\ ev' = Event("callback", c, data, "SessionExpired", Stage(c), NoJob)
          /\ userStates' = MapStore(userStates, c, NewMeta(""))
          /\ UNCHANGED <<jobs, spawns>>
     ELSE /\ spawns < MaxSpawns
          /\ FreeSlots # {}
          /\ LET s == CHOOSE x \in FreeSlots : \A y \in FreeSlots : x <= y
                 j == performDownload(c, MapLoad(userStates, c), parts[2], parts[3])
             IN IF started
                THEN /\ jobs' = [jobs EXCEPT ![s] = j]
                     /\ ev' = Event("callback", c, data, "DownloadStarted", Stage(c), j)
                ELSE /\ ev' = Event("job", c, data, "StartFailed", Stage(c), j)
                     /\ UNCHANGED jobs
          /\ spawns' = spawns + 1
          /\ UNCHANGED userStates
  /\ budget' = budget - 1
  /\ lastActivityAt' = [lastActivityAt EXCEPT ![c] = now]
  /\ UNCHANGED <<monitorVars, formatVars, chatVars, probing, sweeping, shutdown, variant, files, now, sec, nextSweep, alive>>
handleCallbackHook(c, data, started) ==
  LET parts == Split(data) IN
  /\ HookReady
  /\ IF data = <<"cancel">>
     THEN /\ userStates' = MapDelete(userStates, c)
          /\ ev' = Event("callback", c, data, "Cancelled", Stage(c), NoJob)
          /\ UNCHANGED <<jobs, spawns>>
     ELSE IF Len(parts) < 3 \/ parts[1] # "dl"
     THEN /\ ev' = Event("callback", c, data, "Ignored", Stage(c), NoJob)
          /\ UNCHANGED <<userStates, jobs, spawns>>
     ELSE IF ~MapHas(userStates, c)
     THEN /\ ev' = Event("callback", c, data, "SessionExpired", Stage(c), NoJob)
          /\ UNCHANGED <<userStates, jobs, spawns>>
     ELSE /\ spawns < MaxSpawns
          /\ FreeSlots # {}
          /\ LET s == CHOOSE x \in FreeSlots : \A y \in FreeSlots : x <= y
                 j == performDownload(c, MapLoad(userStates, c), parts[2], parts[3])
             IN IF started
                THEN /\ jobs' = [jobs EXCEPT ![s] = j]
                     /\ ev' = Event("callback", c, data, "DownloadStarted", Stage(c), j)
                ELSE /\ ev' = Event("job", c, data, "StartFailed", Stage(c), j)
                     /\ UNCHANGED jobs
          /\ spawns' = spawns + 1
          /\ UNCHANGED userStates
  /\ budget' = budget - 1
  /\ lastActivityAt' = [lastActivityAt EXCEPT ![c] = now]
  /\ UNCHANGED <<monitorVars, formatVars, chatVars, probing, sweeping, shutdown, variant, files, now, sec, nextSweep, alive>>

\* cmd.Wait() returns
HookWait(s, err) ==
  LET j == jobs[s] IN
  /\ variant = "hook" /\ alive
  /\ j.pc = "running"
  /\ IF err
     THEN /\ files' = Remove(files, j.file)
          /\ EndJob(s, "DownloadFailed")
     ELSE /\ jobs' = [jobs EXCEPT ![s].pc = "stat"]
          /\ ev' = NoEvent
          /\ UNCHANGED files
  /\ UNCHANGED <<monitorVars, formatVars, chatVars, probing, sweeping, shutdown, lastActivityAt, variant, userStates, spawns, budget, now, sec, nextSweep, alive>>

\* os.Stat(finalPath) and the 50 MB check
HookStat(s) ==
  LET j == jobs[s] IN
  /\ variant = "hook" /\ alive
  /\ j.pc = "stat"
  /\ IF ~Exists(files, j.file)
     THEN /\ EndJob(s, "ArtifactMissing")
          /\ UNCHANGED files
     ELSE IF TooLarge(Stat(files, j.file).size)
     THEN /\ files' = Remove(files, j.file)
          /\ jobs' = [jobs EXCEPT ![s] = NoJob]
          /\ ev' = Event("job", j.chat, <<>>, "ArtifactTooLarge", Stage(j.chat),
                         [j EXCEPT !.size = Stat(files, j.file).size])
     ELSE /\ jobs' = [jobs EXCEPT ![s].pc = IF j.thumb # "" THEN "thumb" ELSE "send",
                                  ![s].size = Stat(files, j.file).size]
          /\ ev' = NoEvent
          /\ UNCHANGED files
  /\ UNCHANGED <<monitorVars, formatVars, chatVars, probing, sweeping, shutdown, lastActivityAt, variant, userStates, spawns, budget, now, sec, nextSweep, alive>>

ThumbPath(prefix) == PathOf(prefix, "_thumb.jpg")

\* downloadFile(url, path): "get_failed" leaves no file; "copy_failed" has
\* created the file when io.Copy fails; "ok" wrote it all.
downloadFile(fs, path, outcome, mtime) ==
  IF outcome = "get_failed" THEN fs
  ELSE WriteFile(fs, [chat |-> path.chat, fmt |-> path.fmt, ts |-> path.ts,
                      ext |-> path.ext, size |-> 1, mtime |-> mtime])

\* Step 5 of performDownload: the thumbnail, when the metadata names one
HookThumb(s, outcome) ==
  LET j == jobs[s] IN
  /\ variant = "hook" /\ alive
  /\ j.pc = "thumb"
  /\ files' = downloadFile(files, ThumbPath(j.prefix), outcome, now)
  /\ jobs' = [jobs EXCEPT ![s].pc = "send",
                          ![s].thumbPath = IF outcome = "ok" THEN "set" ELSE ""]
  /\ ev' = NoEvent
  /\ UNCHANGED <<monitorVars, formatVars, chatVars, probing, sweeping, shutdown, lastActivityAt, variant, userStates, spawns, budget, now, sec, nextSweep, alive>>

\* Outcome of uploadFile: bot.Send fails on a missing file or on the network
uploadFile(fs, path, sendOk) ==
  IF Exists(fs, path) /\ sendOk THEN "ok" ELSE "failed"

\* uploadFile returns, then step 7 of performDownload
HookDeliver(s, sendOk) ==
  LET j == jobs[s]
      noArtifact == Remove(files, j.file)
  IN
  /\ variant = "hook" /\ alive
  /\ j.pc = "send"
  /\ files' = IF j.thumbPath # "" THEN Remove(noArtifact, ThumbPath(j.prefix)) ELSE noArtifact
  /\ userStates' = MapDelete(userStates, j.chat)
  /\ jobs' = [jobs EXCEPT ![s] = NoJob]
  /\ ev' = Event("job", j.chat, <<>>, "Done", Stage(j.chat),
                 [j EXCEPT !.sent = uploadFile(files, j.file, sendOk)])
  /\ UNCHANGED <<monitorVars, formatVars, chatVars, probing, sweeping, shutdown, lastActivityAt, variant, spawns, budget, now, sec, nextSweep, alive>>

(* ========= webhook bot: the progress monitor of one download ========== *)
\* One download is followed from the moment performDownload has started
\* monitorProgress and is about to call cmd.Wait().
\*
\* An output line is the record of what matters in its text: pre is its
\* leading tag, num the number standing between the tag's white space and
\* a "%" sign: <<w, f>> for the digits w "." f, <<w>> for digits without a
\* decimal point, <<>> when no such number follows the tag.
Line(pre, num) == [pre |-> pre, num |-> num]

\* Lines yt-dlp and ffmpeg print
OutLines ==
  { Line("[Merger]", <<>>),            \* [Merger] Merging formats into ...
    Line("[download]", <<>>),          \* [download] Destination: ...
    Line("[download]", <<12, 5>>),     \* [download]  12.5% of ...
    Line("[download]", <<100, 0>>),    \* [download] 100.0% of ...
    Line("[download]", <<100>>),       \* [download] 100% of ... in 00:05
    Line("[download]", <<110, 0>>) }   \* [download] 110.0% of ~ ... (estimated size)

\* strings.Contains(text, "[download]")
ContainsDownload(text) == text.pre = "[download]"

\* re.FindStringSubmatch(lastLine) for \[download\]\s+(\d+\.\d+)% : the
\* captured group, or <<>> when the line does not match
FindStringSubmatch(text) ==
  IF text.pre = "[download]" /\ Len(text.num) = 2 THEN text.num ELSE <<>>

\* strconv.ParseFloat(percentStr, 64), in tenths of a percent
ParseFloat(percentStr) == percentStr[1] * 10 + percentStr[2]

TotalBars == 10

\* int(math.Round((p / 100) * float64(totalBars)))
filledBars(percentStr) == (ParseFloat(percentStr) + 50) \div 100

\* The numbers of filled and of empty cells of the bar; strings.Repeat
\* panics on a negative count.
generateProgressBar(percentStr) ==
  IF TotalBars - filledBars(percentStr) < 0 THEN [panic |-> TRUE, filled |-> 0, empty |-> 0]
  ELSE [panic |-> FALSE, filled |-> filledBars(percentStr),
        empty |-> TotalBars - filledBars(percentStr)]

\* The state right after `go b.monitorProgress(stdout, chatID, msgID, done)`
InitMonitor ==
  /\ variant = "hook" /\ userStates = {} /\ files = {}
  /\ jobs = [s \in Slots |-> NoJob] /\ spawns = 0 /\ budget = 0
  /\ now = 0 /\ sec = 0 /\ nextSweep = Interval /\ alive = TRUE /\ ev = NoEvent
  /\ lastActivityAt = [c \in Chats |-> 0]
  /\ FormatsIdle
  /\ ChatIdle
  /\ stdout = <<>> /\ proc = "running" /\ waiter = "wait" /\ mon = "select"
  /\ lastLine = EmptyLine /\ tick = FALSE /\ edits = <<>> /\ written = 0
  /\ observed = FALSE

\* All of the bot's state but alive
botRest == <<variant, userStates, files, jobs, spawns, budget, now, sec, nextSweep, ev,
             lastActivityAt>>

\* The subprocess prints a line.
SubprocessPrint(text) ==
  /\ alive /\ proc = "running"
  /\ written < MaxLines
  /\ stdout' = Append(stdout, text)
  /\ written' = written + 1
  /\ UNCHANGED <<botRest, alive, formatVars, chatVars, probing, sweeping, shutdown, observed, proc, waiter, mon, lastLine, tick, edits>>

\* The subprocess exits: the writing end of the pipe is closed.
SubprocessExit ==
  /\ alive /\ proc = "running"
  /\ proc' = "exited"
  /\ UNCHANGED <<botRest, alive, formatVars, chatVars, probing, sweeping, shutdown, observed, stdout, waiter, mon, lastLine, tick, edits, written>>

\* cmd.Wait() returns in performDownload, which goes on to `done <- true`.
\* Wait closes the reading end of the pipe: of the lines not yet scanned,
\* those the Scanner had already buffered (a prefix) can still be scanned.
cmdWait(buffered) ==
  /\ alive /\ proc = "exited" /\ waiter = "wait"
  /\ buffered <= Len(stdout)
  /\ waiter' = "signal"
  /\ stdout' = SubSeq(stdout, 1, buffered)
  /\ UNCHANGED <<botRest, alive, formatVars, chatVars, probing, sweeping, shutdown, observed, proc, mon, lastLine, tick, edits, written>>

\* The ticker delivers a tick into its channel of capacity one; a tick that
\* finds the channel full is dropped.
TickerFires ==
  /\ alive /\ mon \in {"select", "scan"}
  /\ ~tick
  /\ Len(edits) < MaxEdits
  /\ tick' = TRUE
  /\ UNCHANGED <<botRest, alive, formatVars, chatVars, probing, sweeping, shutdown, observed, stdout, proc, waiter, mon, lastLine, edits, written>>

\* select, case <-done: the hand-off with performDownload's `done <- true`
MonitorDone ==
  /\ alive /\ mon = "select" /\ waiter = "signal"
  /\ mon' = "returned"
  /\ waiter' = "returned"
  /\ UNCHANGED <<botRest, alive, formatVars, chatVars, probing, sweeping, shutdown, observed, stdout, proc, lastLine, tick, edits, written>>

\* select, case <-ticker.C
MonitorTick ==
  LET matches == FindStringSubmatch(lastLine) IN
  /\ alive /\ mon = "select" /\ tick
  /\ tick' = FALSE
  /\ observed' = FALSE
  /\ IF lastLine = EmptyLine \/ matches = <<>>
     THEN UNCHANGED <<edits, mon, alive>>
     ELSE IF generateProgressBar(matches).panic
     THEN /\ mon' = "panicked"
          /\ alive' = FALSE
          /\ UNCHANGED edits
     ELSE /\ edits' = Append(edits, matches)
          /\ UNCHANGED <<mon, alive>>
  /\ UNCHANGED <<botRest, formatVars, chatVars, probing, sweeping, shutdown, stdout, proc, waiter, lastLine, written>>

\* select, default: taken when neither channel is ready
MonitorDefault ==
  /\ alive /\ mon = "select"
  /\ ~tick /\ waiter # "signal"
  /\ mon' = "scan"
  /\ UNCHANGED <<botRest, alive, formatVars, chatVars, probing, sweeping, shutdown, observed, stdout, proc, waiter, lastLine, tick, edits, written>>

\* scanner.Scan() returns: with the next line, or with false at the end of
\* the stream (then the monitor sleeps 500 ms).  It blocks while the pipe is
\* open and empty.
MonitorScanEditing ==
  /\ alive /\ mon = "scan"
  /\ IF stdout # <<>>
     THEN /\ lastLine' = IF ContainsDownload(Head(stdout)) THEN Head(stdout) ELSE lastLine
          /\ stdout' = Tail(stdout)
          /\ observed' = (observed \/ FindStringSubmatch(Head(stdout)) # <<>>)
          /\ edits' = IF FindStringSubmatch(Head(stdout)) # <<>>
                      THEN Append(edits, FindStringSubmatch(Head(stdout))) ELSE edits
     ELSE /\ proc = "exited"
          /\ UNCHANGED <<lastLine, stdout, observed, edits>>
  /\ mon' = "select"
  /\ UNCHANGED <<botRest, alive, formatVars, chatVars, probing, sweeping, shutdown, proc, waiter, tick, written>>
MonitorScan ==
  /\ alive /\ mon = "scan"
  /\ IF stdout # <<>>
     THEN /\ lastLine' = IF ContainsDownload(Head(stdout)) THEN Head(stdout) ELSE lastLine
          /\ stdout' = Tail(stdout)
          /\ observed' = (observed \/ FindStringSubmatch(Head(stdout)) # <<>>)
     ELSE /\ proc = "exited"
          /\ UNCHANGED <<lastLine, stdout, observed>>
  /\ mon' = "select"
  /\ UNCHANGED <<botRest, alive, formatVars, chatVars, probing, sweeping, shutdown, proc, waiter, tick, edits, written>>

NextMonitor ==
  \/ \E text \in OutLines : SubprocessPrint(text)
  \/ SubprocessExit
  \/ \E buffered \in 0..MaxLines : cmdWait(buffered)
  \/ TickerFires
  \/ MonitorDone
  \/ MonitorTick
  \/ MonitorDefault
  \/ MonitorScan

SpecMonitor == InitMonitor /\ [][NextMonitor]_vars

\* The two goroutines go on whenever they can: cmd.Wait() returns once the
\* subprocess has exited, and the monitor takes the select case that is
\* ready and returns from a Scan that has a line or the end of the stream.
\* Nothing is assumed of the subprocess.
SpecMonitorFair ==
  /\ SpecMonitor
  /\ WF_vars(\E buffered \in 0..MaxLines : cmdWait(buffered))
  /\ WF_vars(MonitorDone)
  /\ WF_vars(MonitorTick)
  /\ WF_vars(MonitorDefault)
  /\ WF_vars(MonitorScan)

(* ============ the option lists built from one probe result ============ *)
\* What a descriptor of the probe's output may report about its streams
Muxed == [v |-> "avc1", a |-> "mp4a", ext |-> "mp4"]
Profiles ==
  { Muxed,                                     \* video and audio in one file
    [v |-> "avc1", a |-> "none", ext |-> "mp4"],   \* video only
    [v |-> "none", a |-> "mp4a", ext |-> "m4a"],   \* audio only
    [v |-> "", a |-> "", ext |-> "mp4"] }          \* vcodec and acodec missing

\* The i-th descriptor of a list in yt-dlp's order, worst first; descriptors
\* come in pairs of one height, an audio-only one has no height.
Rung(i, p) ==
  Fmt(ToString(i), p.ext, IF p.v = "none" THEN 0 ELSE 120 * ((i + 1) \div 2), p.v, p.a)

Ladder(n, head) ==
  [i \in 1..n |-> Rung(i, IF i <= MaxMixed THEN head[i] ELSE Muxed)]

Reverse(seq) == [i \in 1..Len(seq) |-> seq[Len(seq) + 1 - i]]

\* The probe results explored: up to MaxFormats descriptors, worst first or
\* best first.
FormatLists ==
  UNION { {Ladder(n, head), Reverse(Ladder(n, head))} :
            n \in 0..MaxFormats, head \in [1..MaxMixed -> Profiles] }

InitFormats ==
  /\ variant \in {"poll", "hook"}
  /\ userStates = {} /\ files = {}
  /\ jobs = [s \in Slots |-> NoJob] /\ spawns = 0 /\ budget = 0
  /\ now = 0 /\ sec = 0 /\ nextSweep = Interval /\ alive = TRUE /\ ev = NoEvent
  /\ lastActivityAt = [c \in Chats |-> 0]
  /\ MonitorIdle
  /\ probeResult \in FormatLists
  /\ presented = NoShown
  /\ probing = NoProbe
  /\ sweeping = NoSweep
  /\ shutdown = "none"
  /\ ChatIdle

\* Polling bot: showAvailableFormats filters the probed list by the chosen
\* kind and sendFormatButtons presents it.
presentFormats(formatType) ==
  LET availableFormats == IF formatType = "video"
                          THEN filterVideoFormats(probeResult)
                          ELSE filterAudioFormats(probeResult)
  IN
  /\ variant = "poll"
  /\ presented = NoShown
  /\ presented' = [bot |-> "poll", kind |-> formatType, rows |-> formatRows(availableFormats)]
  /\ UNCHANGED <<botVars, monitorVars, probeResult, probing, sweeping, shutdown, chatVars>>

\* Webhook bot: processLink presents the keyboard of createQualityKeyboard.
presentKeyboard ==
  /\ variant = "hook"
  /\ presented = NoShown
  /\ presented' = [bot |-> "hook", kind |-> "video",
                   rows |-> qualityHeights([Formats |-> probeResult])]
  /\ UNCHANGED <<botVars, monitorVars, probeResult, probing, sweeping, shutdown, chatVars>>

NextFormats ==
  \/ \E formatType \in {"video", "audio"} : presentFormats(formatType)
  \/ presentKeyboard

SpecFormats == InitFormats /\ [][NextFormats]_vars

(* ------------------------- the metadata probe ------------------------- *)
(* The handlers that run yt-dlp for metadata, followed step by step: the   *)
(* handler starts the subprocess, blocks in cmd.Output() / cmd.Run() while *)
(* seconds pass, and goes on when the call returns.  Whether and when the  *)
(* subprocess exits is the outside's choice.                               *)
ProbeTimeoutSecs == 15   \* context.WithTimeout(context.Background(), 15*time.Second)
ProbeFns == {"processLink", "isValidURL", "getVideoInfo"}

\* The handler reaches its exec of yt-dlp.  showAvailableFormats is entered
\* from the callback type:<kind>, which has recorded the kind in the session.
ProbeStart(fn, c, url, formatType) ==
  /\ alive /\ budget > 0 /\ probing.pc = "idle"
  /\ \/ fn = "processLink" /\ variant = "hook" /\ formatType = "" /\ UNCHANGED userStates
     \/ fn = "isValidURL" /\ variant = "poll" /\ formatType = "" /\ UNCHANGED userStates
     \/ /\ fn = "getVideoInfo" /\ variant = "poll" /\ formatType # ""
        /\ MapHas(userStates, c) /\ MapLoad(userStates, c).LastURL = url
        /\ userStates' = MapStore(userStates, c,
                                  [MapLoad(userStates, c) EXCEPT !.LastFormat = formatType])
  /\ probing' = [fn |-> fn, chat |-> c, arg |-> url, kind |-> formatType,
                 pc |-> "running", secs |-> 0]
  /\ budget' = budget - 1
  /\ lastActivityAt' = [lastActivityAt EXCEPT ![c] = now]
  /\ UNCHANGED <<monitorVars, formatVars, chatVars, sweeping, shutdown, variant, files, jobs, spawns, now, sec, nextSweep,
                 alive, ev>>

\* A second passes while the handler waits for the subprocess.
ProbeSecond ==
  /\ probing.pc = "running" /\ probing.secs < MaxProbeSecs
  /\ probing' = [probing EXCEPT !.secs = @ + 1]
  /\ UNCHANGED <<botVars, monitorVars, formatVars, chatVars, sweeping, shutdown>>

\* What the handler does once the call has returned: ran is FALSE when the
\* call returned an error.
ProbeReturns(ran) ==
  /\ IF probing.fn = "processLink" THEN processLinkHook(probing.chat, probing.arg, ran)
     ELSE IF probing.fn = "isValidURL" THEN processLink(probing.chat, probing.arg, ran)
     ELSE LET shown == showAvailableFormats(MapLoad(userStates, probing.chat),
                                            probing.kind, ran)
          IN /\ userStates' = MapStore(userStates, probing.chat, shown.st)
             /\ ev' = Event("callback", probing.chat, <<"type", ":", probing.kind>>,
                            shown.res, Stage(probing.chat), NoJob)
  /\ probing' = NoProbe
  /\ UNCHANGED <<monitorVars, formatVars, chatVars, sweeping, shutdown, variant, files, jobs, spawns, budget, now, sec,
                 nextSweep, alive, lastActivityAt>>

\* The subprocess exits by itself, with or without an error.
ProbeExits(err) ==
  /\ probing.pc = "running"
  /\ ProbeReturns(~err)

\* The deadline of the context of exec.CommandContext passes: the subprocess
\* is killed and cmd.Output() returns the error.
ProbeTimeout ==
  /\ probing.pc = "running" /\ probing.fn = "processLink"
  /\ probing.secs >= ProbeTimeoutSecs
  /\ ProbeReturns(FALSE)

InitProbe ==
  /\ variant \in {"poll", "hook"}
  /\ userStates = {} /\ files = {}
  /\ jobs = [s \in Slots |-> NoJob] /\ spawns = 0 /\ budget = MaxUpdates
  /\ now = 0 /\ sec = 0 /\ nextSweep = Interval /\ alive = TRUE /\ ev = NoEvent
  /\ lastActivityAt = [c \in Chats |-> 0]
  /\ MonitorIdle
  /\ FormatsIdle
  /\ ChatIdle

NextProbe ==
  \/ \E fn \in ProbeFns, c \in Chats, url \in Links, formatType \in {"", "video", "audio"} :
        ProbeStart(fn, c, url, formatType)
  \/ ProbeSecond
  \/ \E err \in BOOLEAN : ProbeExits(err)
  \/ ProbeTimeout

\* The bot's own steps go on: time passes and a deadline that has passed
\* takes effect.  Nothing is assumed of the subprocess.
SpecProbe ==
  /\ InitProbe /\ [][NextProbe]_vars
  /\ WF_vars(ProbeSecond)
  /\ WF_vars(ProbeTimeout)

(* ------------------- the janitor's sweep, file by file ----------------- *)
(* autoCleaner followed through its loop body: the directory is listed,    *)
(* then each listed path is stat'ed and, when too old, removed.  Between   *)
(* these steps the jobs create and remove files of their own.              *)

\* The next path of the listing: filepath.Glob returns the names sorted.
NextListed == CHOOSE n \in sweeping.list : \A m \in sweeping.list : m = n \/ GlobBefore(n, m)

\* `for range ticker.C`: a tick is received and the directory is listed.
SweepList ==
  /\ alive /\ sweeping.pc = "idle" /\ now = nextSweep
  /\ sweeping' = [pc |-> "walk", list |-> {NameOf(f) : f \in files}, victim |-> NoFile,
                  skipped |-> FALSE]
  /\ nextSweep' = nextSweep + Interval
  /\ UNCHANGED <<monitorVars, formatVars, chatVars, probing, shutdown, lastActivityAt, variant, userStates, files,
                 jobs, spawns, budget, now, sec, alive, ev>>

SweepStatUnchecked ==
  /\ alive /\ sweeping.pc = "walk" /\ sweeping.victim = NoFile /\ sweeping.list # {}
  /\ IF ~Exists(files, NextListed)
     THEN /\ alive' = FALSE
          /\ sweeping' = [sweeping EXCEPT !.list = @ \ {NextListed}, !.skipped = TRUE]
     ELSE /\ sweeping' = [sweeping EXCEPT !.list = @ \ {NextListed},
                                          !.victim = IF TooOld(Stat(files, NextListed))
                                                     THEN NextListed ELSE NoFile]
          /\ UNCHANGED alive
  /\ UNCHANGED <<monitorVars, formatVars, chatVars, probing, shutdown, lastActivityAt, variant, userStates, files,
                 jobs, spawns, budget, now, sec, nextSweep, ev>>
\* os.Stat of the next listed path and the test of its age: a path whose
\* stat fails is passed over.
SweepStat ==
  /\ alive /\ sweeping.pc = "walk" /\ sweeping.victim = NoFile /\ sweeping.list # {}
  /\ IF ~Exists(files, NextListed)
     THEN /\ sweeping' = [sweeping EXCEPT !.list = @ \ {NextListed}, !.skipped = TRUE]
          /\ UNCHANGED alive
     ELSE /\ sweeping' = [sweeping EXCEPT !.list = @ \ {NextListed},
                                          !.victim = IF TooOld(Stat(files, NextListed))
                                                     THEN NextListed ELSE NoFile]
          /\ UNCHANGED alive
  /\ UNCHANGED <<monitorVars, formatVars, chatVars, probing, shutdown, lastActivityAt, variant, userStates, files,
                 jobs, spawns, budget, now, sec, nextSweep, ev>>

\* os.Remove of the path found too old; its error is not looked at.
SweepRemove ==
  /\ alive /\ sweeping.pc = "walk" /\ sweeping.victim # NoFile
  /\ files' = Remove(files, sweeping.victim)
  /\ sweeping' = [sweeping EXCEPT !.victim = NoFile,
                                  !.skipped = @ \/ ~Exists(files, sweeping.victim)]
  /\ UNCHANGED <<monitorVars, formatVars, chatVars, probing, shutdown, lastActivityAt, variant, userStates,
                 jobs, spawns, budget, now, sec, nextSweep, alive, ev>>

\* The listing is exhausted: back to the receive from ticker.C.
SweepEnd ==
  /\ alive /\ sweeping.pc = "walk" /\ sweeping.victim = NoFile /\ sweeping.list = {}
  /\ sweeping' = [sweeping EXCEPT !.pc = "idle"]
  /\ UNCHANGED <<botVars, monitorVars, formatVars, chatVars, probing, shutdown>>

\* A download subprocess of a job of chat 1 creates its output file.
JobCreatesFile ==
  /\ alive /\ Cardinality(files) < MaxSweepFiles
  /\ files' = WriteFile(files, FileOf([chat |-> 1, fmt |-> (IF variant = "poll" THEN "18" ELSE "vid"),
                                       ts |-> UnixNow],
                                      FinalExt("video"), MaxFileSizeBotAPI, now))
  /\ UNCHANGED <<monitorVars, formatVars, chatVars, probing, sweeping, shutdown, lastActivityAt, variant, userStates,
                 jobs, spawns, budget, now, sec, nextSweep, alive, ev>>

\* A job's os.Remove of the file it has delivered or found too large: in the
\* polling bot the file findDownloadedFile returned, in the webhook bot the
\* job's own finalPath.
JobRemovesFile(name) ==
  /\ alive /\ Exists(files, name)
  /\ variant = "hook" => name.ts >= 0
  /\ files' = Remove(files, name)
  /\ UNCHANGED <<monitorVars, formatVars, chatVars, probing, sweeping, shutdown, lastActivityAt, variant, userStates,
                 jobs, spawns, budget, now, sec, nextSweep, alive, ev>>

InitSweep ==
  /\ MonitorIdle
  /\ FormatsIdle
  /\ ChatIdle
  /\ lastActivityAt = [c \in Chats |-> 0]
  /\ variant \in {"poll", "hook"}
  /\ userStates = {}
  /\ files \in SUBSET Leftovers
  /\ jobs = [s \in Slots |-> NoJob]
  /\ spawns = 0 /\ budget = 0
  /\ now = 0 /\ sec = 0
  /\ nextSweep = Interval
  /\ alive = TRUE
  /\ ev = NoEvent

NextSweep ==
  \/ Tick
  \/ SweepList
  \/ SweepStat
  \/ SweepRemove
  \/ SweepEnd
  \/ JobCreatesFile
  \/ \E f \in files : JobRemovesFile(NameOf(f))

\* The janitor's goroutine goes on whenever it can and time passes.  Nothing
\* is assumed of the jobs.
SpecSweep ==
  /\ InitSweep /\ [][NextSweep]_vars
  /\ WF_vars(Tick)
  /\ WF_vars(SweepList)
  /\ WF_vars(SweepStat)
  /\ WF_vars(SweepRemove)
  /\ WF_vars(SweepEnd)

(* ------------------------------ shutdown ------------------------------ *)
\* SIGINT or SIGTERM is delivered: signal.Notify puts it into sigChan, a
\* channel of capacity one.
SignalArrives ==
  /\ alive /\ shutdown = "none"
  /\ shutdown' = "pending"
  /\ UNCHANGED <<botVars, monitorVars, formatVars, chatVars, probing, sweeping>>

\* Polling bot: the main loop is in its select, no handler running, and takes
\* `case <-sigChan`: os.RemoveAll(downloadDir) and return from main.
PollShutdown ==
  /\ variant = "poll" /\ alive /\ shutdown = "pending"
  /\ ActiveSlots = {}
  /\ files' = {}
  /\ shutdown' = "done"
  /\ alive' = FALSE
  /\ ev' = NoEvent
  /\ UNCHANGED <<monitorVars, formatVars, chatVars, probing, sweeping, lastActivityAt, variant, userStates,
                 jobs, spawns, budget, now, sec, nextSweep>>

\* Webhook bot: the goroutine that waits on sigChan runs os.RemoveAll and
\* os.Exit(0), whatever the other goroutines are doing.
HookShutdown ==
  /\ variant = "hook" /\ alive /\ shutdown = "pending"
  /\ files' = {}
  /\ shutdown' = "done"
  /\ alive' = FALSE
  /\ ev' = NoEvent
  /\ UNCHANGED <<monitorVars, formatVars, chatVars, probing, sweeping, lastActivityAt, variant, userStates,
                 jobs, spawns, budget, now, sec, nextSweep>>

(* ---------------------- the chat WebSocket server --------------------- *)
(* server.js: each connection's handlers close over userId, which is null *)
(* until an AUTH frame with a token that jwt.verify accepts.  JavaScript  *)
(* runs one handler at a time, so each handler is one step.               *)
Conns == 1..MaxConns
Users == 1..MaxUsers
\* A token: the user id it was signed for, 0 for a token jwt.verify
\* rejects, -1 for a frame without a token.
Tokens == Users \cup {0, 0 - 1}
ChatFrames == {"MESSAGE", "TYPING", "STOPPED_TYPING"}

\* wss.on('connection'): a new socket, userId = null
wsConnection(k) ==
  /\ sockets[k].readyState = "none"
  /\ \A j \in 1..(k - 1) : sockets[j].readyState # "none"
  /\ sockets' = [sockets EXCEPT ![k].readyState = "open"]
  /\ lastFrame' = NoFrame
  /\ UNCHANGED <<activeConnections, onlineUsers>>
  /\ UNCHANGED <<botVars, monitorVars, formatVars, probing, sweeping, shutdown>>

\* ws.on('message'), case 'AUTH'
wsAuth(k, token) ==
  /\ sockets[k].readyState = "open"
  /\ IF token = 0 - 1
     THEN UNCHANGED <<sockets, activeConnections, onlineUsers>>
     ELSE IF token = 0
     THEN \* AUTH_ERROR and ws.close(): the 'close' event comes later
          /\ sockets' = [sockets EXCEPT ![k].readyState = "closing"]
          /\ UNCHANGED <<activeConnections, onlineUsers>>
     ELSE /\ sockets' = [sockets EXCEPT ![k].userId = token, ![k].authedAs = @ \cup {token}]
          /\ activeConnections' = [activeConnections EXCEPT ![token] = k]
          /\ onlineUsers' = onlineUsers \cup {token}
  /\ lastFrame' = [conn |-> k, type |-> "AUTH", authed |-> (sockets[k].authedAs # {}),
                   broadcast |-> FALSE, saved |-> FALSE]
  /\ UNCHANGED <<botVars, monitorVars, formatVars, probing, sweeping, shutdown>>

wsFrameUnguarded(k, type) ==
  /\ sockets[k].readyState = "open"
  /\ lastFrame' = [conn |-> k, type |-> type, authed |-> (sockets[k].authedAs # {}),
                   broadcast |-> TRUE, saved |-> (type = "MESSAGE")]
  /\ UNCHANGED <<sockets, activeConnections, onlineUsers>>
  /\ UNCHANGED <<botVars, monitorVars, formatVars, probing, sweeping, shutdown>>
\* ws.on('message'), cases 'MESSAGE' (with a content), 'TYPING' and
\* 'STOPPED_TYPING': saveChatMessage and the broadcast
wsFrame(k, type) ==
  /\ sockets[k].readyState = "open"
  /\ lastFrame' = [conn |-> k, type |-> type, authed |-> (sockets[k].authedAs # {}),
                   broadcast |-> (sockets[k].userId # 0),
                   saved |-> (sockets[k].userId # 0 /\ type = "MESSAGE")]
  /\ UNCHANGED <<sockets, activeConnections, onlineUsers>>
  /\ UNCHANGED <<botVars, monitorVars, formatVars, probing, sweeping, shutdown>>

\* ws.on('close')
wsClose(k) ==
  /\ sockets[k].readyState \in {"open", "closing"}
  /\ sockets' = [sockets EXCEPT ![k].readyState = "closed"]
  /\ IF sockets[k].userId # 0
     THEN /\ activeConnections' = [activeConnections EXCEPT ![sockets[k].userId] = 0]
          /\ onlineUsers' = onlineUsers \ {sockets[k].userId}
     ELSE UNCHANGED <<activeConnections, onlineUsers>>
  /\ lastFrame' = NoFrame
  /\ UNCHANGED <<botVars, monitorVars, formatVars, probing, sweeping, shutdown>>

InitChat ==
  /\ variant = "hook"
  /\ userStates = {} /\ files = {}
  /\ jobs = [s \in Slots |-> NoJob] /\ spawns = 0 /\ budget = 0
  /\ now = 0 /\ sec = 0 /\ nextSweep = Interval /\ alive = TRUE /\ ev = NoEvent
  /\ lastActivityAt = [c \in Chats |-> 0]
  /\ MonitorIdle
  /\ FormatsIdle
  /\ ChatIdle

NextChat ==
  \/ \E k \in Conns : wsConnection(k)
  \/ \E k \in Conns, token \in Tokens : wsAuth(k, token)
  \/ \E k \in Conns, type \in ChatFrames : wsFrame(k, type)
  \/ \E k \in Conns : wsClose(k)

SpecChat == InitChat /\ [][NextChat]_vars

Next ==
  \/ SecondPasses
  \/ \E s \in Slots : SubprocessWrite(s)
  \/ \E c \in Chats, text \in Texts, ran \in BOOLEAN : handleMessage(c, text, ran)
  \/ \E c \in Chats, data \in PollCallbacks, probed \in BOOLEAN : handleCallback(c, data, probed)
  \/ \E err \in BOOLEAN : PollExit(err)
  \/ PollSizeCheck
  \/ \E sendOk \in BOOLEAN : PollDeliver(sendOk)
  \/ \E c \in Chats, text \in Texts, ran \in BOOLEAN : handleMessageHook(c, text, ran)
  \/ \E c \in Chats, data \in HookCallbacks, started \in BOOLEAN : handleCallbackHook(c, data, started)
  \/ \E s \in Slots, err \in BOOLEAN : HookWait(s, err)
  \/ \E s \in Slots : HookStat(s)
  \/ \E s \in Slots, outcome \in {"get_failed", "copy_failed", "ok"} : HookThumb(s, outcome)
  \/ \E s \in Slots, sendOk \in BOOLEAN : HookDeliver(s, sendOk)

NextJanitor == Next \/ Tick \/ autoCleaner

Spec == Init /\ [][Next]_vars

SpecJanitor == InitJanitor /\ [][NextJanitor]_vars

\* The bot's own steps go on: time passes and the janitor's ticker fires,
\* and a handler that stands after the subprocess's exit runs to its end.
\* Nothing is assumed of the outside: of the updates that arrive, of what a
\* download subprocess writes and of whether it ever exits.
InitLive == InitJanitor /\ files = {}

SpecLive ==
  /\ InitLive /\ [][NextJanitor]_vars
  /\ WF_vars(Tick)
  /\ WF_vars(autoCleaner)
  /\ WF_vars(PollSizeCheck)
  /\ WF_vars(\E sendOk \in BOOLEAN : PollDeliver(sendOk))
  /\ WF_vars(\E s \in Slots : HookStat(s))
  /\ WF_vars(\E s \in Slots, outcome \in {"get_failed", "copy_failed", "ok"} : HookThumb(s, outcome))
  /\ WF_vars(\E s \in Slots, sendOk \in BOOLEAN : HookDeliver(s, sendOk))
\* A bot that may be told to shut down at any moment.  The bot's own steps
\* go on, the shutdown included; nothing is assumed of the outside: of the
\* updates, of the signal, of whether a download subprocess ever exits.
InitSignal == InitCommon /\ budget = MaxUpdatesJanitor /\ files = {}

NextSignal == Next \/ SignalArrives \/ PollShutdown \/ HookShutdown

SpecSignal ==
  /\ InitSignal /\ [][NextSignal]_vars
  /\ WF_vars(PollShutdown)
  /\ WF_vars(HookShutdown)
  /\ WF_vars(PollSizeCheck)
  /\ WF_vars(\E sendOk \in BOOLEAN : PollDeliver(sendOk))
  /\ WF_vars(\E s \in Slots : HookStat(s))
  /\ WF_vars(\E s \in Slots, outcome \in {"get_failed", "copy_failed", "ok"} : HookThumb(s, outcome))
  /\ WF_vars(\E s \in Slots, sendOk \in BOOLEAN : HookDeliver(s, sendOk))

(* ============================== properties ============================ *)
\* The choices the conversation's current session offers
Offered(c) ==
  IF ~MapHas(userStates, c) THEN {}
  ELSE IF variant = "poll"
  THEN IF Len(MapLoad(userStates, c).Formats) = 0 THEN {}
       ELSE sendFormatButtons(MapLoad(userStates, c).Formats, MapLoad(userStates, c).LastFormat)
  ELSE createQualityKeyboard(MapLoad(userStates, c))

Failures == {"ProbeError", "NoFormats", "DownloadFailed", "ArtifactMissing", "ArtifactTooLarge"}

\* C1: in every reachable state of either bot the session store holds at most
\* one session per chat id.
C1_AtMostOneSession ==
  \A c \in Chats : Cardinality({e \in userStates : e.chat = c}) <= 1

\* C1 witness: a link was accepted for a chat that already had a session
\* while the other chat holds a session too.
C1_Witness ==
  /\ ev.kind = "link" /\ ev.res = "Accepted" /\ ev.was = "AwaitingFormat"
  /\ \A c \in Chats : MapHas(userStates, c)

\* C2: right after processLink accepted a link, the chat's session is a fresh
\* one built from that link alone: its URL is the new link, and it has no
\* media kind and no format list of the session it replaced (polling bot),
\* respectively exactly the formats probed for the new link (webhook bot).
C2_LinkReplacesSession ==
  (ev.kind = "link" /\ ev.res = "Accepted") =>
     /\ Cardinality({e \in userStates : e.chat = ev.chat}) = 1
     /\ LET st == MapLoad(userStates, ev.chat)
        IN IF variant = "poll"
           THEN st.LastURL = ev.data[1] /\ st.LastFormat = "" /\ st.Formats = <<>>
           ELSE st.WebpageURL = ev.data[1] /\ st.Formats = ProbeFormats(ev.data[1])

\* C2 witness: a link was accepted while the chat's previous session was
\* already at the format choice.
C2_Witness ==
  ev.kind = "link" /\ ev.res = "Accepted" /\ ev.was = "AwaitingFormat"

\* C3 (as claimed): while a chat keeps its session (no step that stores a new
\* link's session, no step that removes it), the stage of the chat never moves
\* to an earlier stage.
C3_StageNeverRegresses ==
  [][\A c \in Chats :
       (/\ MapHas(userStates, c) /\ MapHas(userStates', c)
        /\ ~(ev'.kind = "link" /\ ev'.res = "Accepted" /\ ev'.chat = c))
       => Rank(Stage(c)') >= Rank(Stage(c))]_vars

\* C4 (as claimed): a download starts only for a choice that the chat's
\* current session offers; a format token outside the session's format list
\* starts nothing.
C4_UnknownFormatIgnored ==
  (ev.res = "DownloadStarted") => ev.data \in Offered(ev.chat)

C6_CancelRemovesSession ==
  (ev.kind = "callback" /\ ev.data = <<"cancel">> /\ ev.was = "AwaitingFormat") =>
     ~MapHas(userStates, ev.chat) /\ JobsOf(ev.chat) = {}

\* C7 (as claimed): when a job has ended because its subprocess failed,
\* nothing was delivered and no workspace file carries the job's prefix.
C7_FailedDownloadLeavesNothing ==
  (ev.kind = "job" /\ ev.res = "DownloadFailed") =>
     /\ ev.job.sent = "no"
     /\ ~\E f \in files : HasPrefix(f, ev.job.prefix)

\* C8 (as claimed): when the delivery call has returned and the handler is
\* through, the chat has no session, neither the artifact nor the thumbnail
\* file exists, and the process is running.
C8_DeliveryCleansUp ==
  (ev.kind = "job" /\ ev.res = "Done") =>
     /\ ~MapHas(userStates, ev.chat)
     /\ ~Exists(files, ev.job.file)
     /\ ~Exists(files, ThumbPath(ev.job.prefix))
     /\ alive

\* C9 (as claimed): when a handler has ended in a failure (probe error, no
\* formats, download failed, artifact missing, artifact too large), the chat
\* has no session.
C9_FailureRemovesSession ==
  (ev.res \in Failures) => ~MapHas(userStates, ev.chat)

\* C10: once the janitor has completed a sweep, no workspace file is older
\* than the retention threshold plus one sweep interval.
C10_BoundedFileAge ==
  (nextSweep > Interval) => \A f \in files : now - f.mtime <= Retention + Interval

\* C10 witness: after a sweep, a file older than the retention threshold is
\* still in the workspace, waiting for the next sweep.
C10_Witness ==
  /\ nextSweep > Interval
  /\ \E f \in files : now - f.mtime > Retention
\* C11 (as claimed): the percentages of the progress edits sent for one
\* download never decrease and never repeat the previous one: each edit
\* carries a larger percentage than the edit before it.
C11_ProgressEditsIncrease ==
  \A i \in 1..(Len(edits) - 1) : ParseFloat(edits[i]) < ParseFloat(edits[i + 1])
\* C12 (as claimed): right after a cancel was handled for a chat whose
\* download was running, the chat has no session and no subprocess of the
\* chat is running any more.
C12_CancelStopsDownload ==
  (ev.kind = "callback" /\ ev.res = "Cancelled" /\ ev.was = "Downloading") =>
     /\ ~MapHas(userStates, ev.chat)
     /\ \A s \in JobsOf(ev.chat) : jobs[s].pc # "running"

\* C13 (as claimed): at most one download job is active per chat.
C13_OneJobPerSession ==
  \A c \in Chats : Cardinality(JobsOf(c)) <= 1

\* C14 (as claimed): any two download jobs that exist together write under
\* different file-path prefixes.
C14_DistinctPrefixes ==
  \A s, t \in ActiveSlots : s # t => jobs[s].prefix # jobs[t].prefix

\* C15 (as claimed): while the download subprocess of one chat is running
\* and an update of another chat is waiting, the bot can handle that update:
\* the message handler of the other chat is enabled.
C15_OtherChatServed ==
  \A s \in ActiveSlots :
    (alive /\ budget > 0 /\ jobs[s].pc = "running") =>
       \A c \in Chats \ {jobs[s].chat} :
          ENABLED (\E text \in Texts, ran \in BOOLEAN :
                      handleMessage(c, text, ran) \/ handleMessageHook(c, text, ran))
\* C16 (as claimed): when a handler has ended in a panic, the process is
\* still running and the chat of the handler has no session.
C16_PanicIsolated ==
  (ev.kind = "job" /\ ev.res = "Panic") =>
     alive /\ ~MapHas(userStates, ev.chat)

\* C17 (as claimed): a download subprocess does not run forever: a job that
\* waits for its subprocess eventually stops waiting, whether or not the
\* subprocess exits by itself.
C17_DownloadIsBounded ==
  \A s \in Slots : (jobs[s].pc = "running") ~> (jobs[s].pc # "running")

\* C18 (as claimed): a callback for a chat whose session has seen no update
\* for longer than the inactivity timeout, and has no download under way,
\* removes the session and starts no download.  The timeout is taken as
\* long as the explored time allows: one clock step less than MaxTime.
C18_IdleSessionExpires ==
  [][\A c \in Chats :
       (/\ MapHas(userStates, c) /\ JobsOf(c) = {}
        /\ now - lastActivityAt[c] > MaxTime - TickStep
        /\ ev'.kind = "callback" /\ ev'.chat = c)
       => (~MapHas(userStates', c) /\ ev'.res # "DownloadStarted")]_vars
\* C19 (as claimed): every option presented for the kind video stands for a
\* descriptor that reports a video codec and an audio codec, and every
\* option presented for the kind audio is a descriptor without video codec.
C19_OptionsMatchKind ==
  LET rows == presented.rows
      hasCodec(codec) == codec # "" /\ codec # "none"
      muxed(f) == hasCodec(f.VideoCodec) /\ hasCodec(f.AudioCodec)
  IN /\ (presented.bot = "poll" /\ presented.kind = "video") =>
          \A i \in 1..Len(rows) : muxed(rows[i])
     /\ (presented.bot = "poll" /\ presented.kind = "audio") =>
          \A i \in 1..Len(rows) : ~hasCodec(rows[i].VideoCodec)
     /\ (presented.bot = "hook" /\ presented.kind = "video") =>
          \A i \in 1..Len(rows) :
             \E k \in 1..Len(probeResult) :
                probeResult[k].Height = rows[i] /\ muxed(probeResult[k])

\* C20 (as claimed): the video options are presented from the highest
\* resolution down, and an option that is available but not presented ranks
\* no higher than any presented one.
C20_BestOptionsPresented ==
  LET rows == presented.rows
      available == IF presented.bot = "poll"
                   THEN LET kept == filterVideoFormats(probeResult)
                        IN {kept[k] : k \in 1..Len(kept)}
                   ELSE resolutions([Formats |-> probeResult])
      rank(option) == IF presented.bot = "poll" THEN option.Height ELSE option
      dropped == available \ {rows[i] : i \in 1..Len(rows)}
  IN (presented.kind = "video") =>
        /\ \A i \in 1..(Len(rows) - 1) : rank(rows[i]) >= rank(rows[i + 1])
        /\ \A d \in dropped : \A i \in 1..Len(rows) : rank(d) <= rank(rows[i])
\* C21: a step that answers a message with the invalid-link reply, or with
\* the hint sent for a text that is no link, leaves the session store as it
\* was: no session is created and an existing one is not modified.
C21_RejectedLinkKeepsStore ==
  [][(ev'.kind \in {"link", "text"} /\ ev'.res \in {"InvalidLink", "Hint"})
       => userStates' = userStates]_vars

\* C21 witness: a link was rejected for a chat that has a session, and the
\* session is still there.
C21_Witness ==
  ev.kind = "link" /\ ev.res = "InvalidLink" /\ MapHas(userStates, ev.chat)
\* C22 (as claimed): once the reporter has a valid percentage at hand, it
\* has one after every further step of the download: a later line replaces
\* it only by another valid percentage.
C22_PercentageRetained ==
  [][FindStringSubmatch(lastLine) # <<>> => FindStringSubmatch(lastLine') # <<>>]_vars

\* C23 (as claimed): whatever lines the subprocess prints, the monitor never
\* panics and every percentage it reports lies within 0..100.
C23_ParsingNeverFaults ==
  /\ mon # "panicked"
  /\ \A i \in 1..Len(edits) : ParseFloat(edits[i]) >= 0 /\ ParseFloat(edits[i]) <= 1000

\* C29 (as claimed): a tick that waits in the ticker's channel while a
\* percentage is at hand can be served without any further output of the
\* subprocess: the monitor is at the select or can return to it by itself.
C29_TickNeverWaitsForOutput ==
  (alive /\ tick /\ mon \in {"select", "scan"} /\ FindStringSubmatch(lastLine) # <<>>)
     => ENABLED (MonitorTick \/ MonitorScan)

\* C30 (as claimed): a tick handled when no percentage was scanned since the
\* previous tick was handled sends no progress edit.
C30_IdleTickSendsNothing ==
  [][(tick /\ ~tick' /\ ~observed) => edits' = edits]_vars
\* C24 (as claimed): once cmd.Wait() has returned, the hand-off on the done
\* channel completes: performDownload gets past `done <- true` and the
\* monitor has returned.
C24_HandOffCompletes ==
  (waiter = "signal") ~> (waiter = "returned" /\ mon = "returned")
\* C25 (as claimed): when a job of the webhook bot finishes while the store
\* holds a session that the chat created from another link after the job
\* was started, that session is still in the store after the job's cleanup.
C25_CleanupKeepsNewerSession ==
  [][(/\ variant = "hook"
      /\ ev'.kind = "job" /\ ev'.res = "Done"
      /\ MapHas(userStates, ev'.chat)
      /\ MapLoad(userStates, ev'.chat).WebpageURL # ev'.job.url)
       => (/\ MapHas(userStates', ev'.chat)
           /\ MapLoad(userStates', ev'.chat) = MapLoad(userStates, ev'.chat))]_vars
\* C27 (as claimed): no step of a job ends in a panic, whatever the janitor
\* has removed before it: the job ends with a failure reply or goes on, and
\* the process stays alive.
C27_JanitorRaceIsBenign ==
  alive /\ (ev.kind = "job" => ev.res # "Panic")

\* C28 (as claimed): a sweep of the janitor removes no file that carries the
\* prefix of a job whose subprocess is still running.
C28_SweepSparesRunningJobs ==
  [][(ev'.kind = "sweep") =>
       \A f \in files \ files' :
          ~\E s \in ActiveSlots : jobs[s].pc = "running" /\ HasPrefix(f, jobs[s].prefix)]_vars
\* C26 (as claimed): every metadata probe that a handler waits for comes to
\* an end, whether or not the subprocess ever exits: the handler goes on
\* and replies.
C26_ProbeIsBounded ==
  (probing.pc = "running") ~> (probing.pc = "idle")
\* C31: a progress edit is sent only by the step that takes a tick from the
\* ticker's channel, and that step sends one edit at most, however many
\* lines were scanned since the tick before.
C31_OneEditPerTick ==
  [][edits' # edits => (tick /\ ~tick' /\ Len(edits') = Len(edits) + 1)]_vars
\* Three lines were printed and scanned, two of them with a percentage, and
\* one edit was sent.
C31_Witness ==
  /\ written = MaxLines /\ stdout = <<>> /\ Len(edits) = 1
  /\ FindStringSubmatch(lastLine) # <<>> /\ lastLine.num # edits[1] /\ ~tick
\* C32 (as claimed): in the polling bot, the file downloadAndSend has found
\* and goes on to deliver carries the prefix of this invocation, the
\* invocation's timestamp included.
C32_DeliversOwnFile ==
  (variant = "poll" /\ jobs[1].pc \in {"stat", "send"})
     => HasPrefix(jobs[1].file, jobs[1].prefix)
\* C33: a listed path that has vanished before its stat or its removal is
\* passed over without an effect on the workspace or the process, and every
\* sweep that was begun visits the rest of its listing and comes back to
\* wait for the next tick.
C33_SweepToleratesVanishing ==
  /\ [][(sweeping.pc = "walk" /\ sweeping' # sweeping)
          => /\ (sweeping.victim # NoFile /\ ~Exists(files, sweeping.victim))
                  => (alive' /\ files' = files /\ sweeping'.pc = "walk"
                      /\ sweeping'.list = sweeping.list)
             /\ (sweeping.victim = NoFile /\ sweeping.list # {} /\ ~Exists(files, NextListed))
                  => (alive' /\ files' = files /\ sweeping'.pc = "walk"
                      /\ sweeping'.list = sweeping.list \ {NextListed})]_vars
  /\ (sweeping.pc = "walk") ~> (sweeping.pc = "idle")
\* A sweep has passed over a vanished path and has come to its end.
C33_Witness ==
  alive /\ sweeping.pc = "idle" /\ sweeping.skipped
\* C34: a callback that chooses a kind or a format, received for a chat
\* that has no session, is answered with the session-expired message and
\* changes nothing: no session is stored, no probe is run for it and no
\* download is started.
C34_NoSessionNoEffect ==
  [][(/\ ev'.kind \in {"callback", "job"} /\ ev'.data # <<>>
      /\ ev'.data[1] \in {"type", "format", "dl"}
      /\ ~MapHas(userStates, ev'.chat))
       => (/\ ev'.kind = "callback" /\ ev'.res = "SessionExpired"
           /\ userStates' = userStates /\ jobs' = jobs /\ spawns' = spawns
           /\ files' = files)]_vars
C34_Witness ==
  /\ ev.kind = "callback" /\ ev.res = "SessionExpired" /\ ev.data[1] \in {"type", "format", "dl"}
  /\ ~MapHas(userStates, ev.chat) /\ \E c \in Chats : MapHas(userStates, c)
\* C35 (as claimed): once SIGINT or SIGTERM has been delivered, the
\* workspace is eventually removed and the process stops, a download under
\* way or not.
C35_SignalShutsDown ==
  (shutdown = "pending") ~> (shutdown = "done" /\ files = {})
\* C36 (as claimed): onlineUsers holds exactly the user ids with at least
\* one connection that has authenticated and is not yet closed, and
\* activeConnections maps each of them to such a socket.
C36_OnlineUsersExact ==
  LET Held(u) == {k \in Conns : /\ sockets[k].readyState \in {"open", "closing"}
                                /\ u \in sockets[k].authedAs} IN
  /\ onlineUsers = {u \in Users : Held(u) # {}}
  /\ \A u \in onlineUsers : activeConnections[u] \in Held(u)

\* C37: a MESSAGE, TYPING or STOPPED_TYPING frame handled on a connection
\* that has not authenticated is neither broadcast nor saved.
C37_UnauthenticatedFrameDropped ==
  (lastFrame.type \in ChatFrames /\ ~lastFrame.authed)
     => (~lastFrame.broadcast /\ ~lastFrame.saved)
\* A MESSAGE frame was handled on a connection that has not authenticated,
\* while another connection is open and authenticated.
C37_Witness ==
  /\ lastFrame.type = "MESSAGE" /\ ~lastFrame.authed /\ ~lastFrame.broadcast
  /\ \E k \in Conns : sockets[k].authedAs # {} /\ sockets[k].readyState = "open"
\* C38 (as claimed): for every percentage that monitorProgress can hand to
\* generateProgressBar, the call does not fault and returns a bar of
\* TotalBars cells, of which the percentage divided by ten, rounded, are
\* filled.
C38_ProgressBarTotal ==
  LET matches == FindStringSubmatch(lastLine)
      bar == generateProgressBar(matches)
  IN matches # <<>> =>
       /\ ~bar.panic
       /\ bar.filled >= 0 /\ bar.empty >= 0
       /\ bar.filled + bar.empty = TotalBars
       /\ bar.filled = (ParseFloat(matches) + 50) \div 100
====
